---- MODULE Spec2Model ----
(***************************************************************************)
(* CodeSensei: the App component (src/types.ts) and its provider wrappers  *)
(* (src/services/geminiService.ts) as a state machine.                     *)
(*                                                                         *)
(* Two specifications share the operators below:                           *)
(*   PlaySpec  drives playVoice alone, with every payload of PlayInputs;   *)
(*   Spec      is the whole App: effects, handlers, provider calls.        *)
(***************************************************************************)
EXTENDS Integers, Sequences, FiniteSets, Bags

(***************************************************************************)
(* Bounds of the model.                                                     *)
(***************************************************************************)
MaxSamples == 2
MaxSources == 2
MaxContexts == 2
MaxInvocations == 3

(***************************************************************************)
(* Program constants.                                                       *)
(***************************************************************************)
SampleRate == 24000
Scale == 32768

(***************************************************************************)
(* Strings.  A JavaScript string is a sequence of characters; a character   *)
(* of a payload is a number: 0..63 the base64 alphabet (by value), then     *)
(* '=', ASCII whitespace and '!' (any character outside the alphabet).      *)
(* A value that may be undefined is a record.                               *)
(***************************************************************************)
Alphabet == 0..63
PadChar == 63 + 1
SpaceChar == 63 + 2
BangChar == 63 + 3

Str(s) == [undef |-> FALSE, chars |-> s]
Undefined == [undef |-> TRUE, chars |-> <<>>]

\* !x for a string or undefined: undefined and '' are falsy
Falsy(p) == p.undef \/ p.chars = <<>>

RECURSIVE StripSpace(_)
StripSpace(s) ==
  IF s = <<>> THEN <<>>
  ELSE IF Head(s) = SpaceChar THEN StripSpace(Tail(s))
       ELSE <<Head(s)>> \o StripSpace(Tail(s))

\* forgiving-base64: with a length divisible by 4, one or two trailing '=' go
StripPad(s) ==
  IF Len(s) > 0 /\ Len(s) % 4 = 0
  THEN IF s[Len(s)] = PadChar
       THEN IF s[Len(s) - 1] = PadChar
            THEN SubSeq(s, 1, Len(s) - 2)
            ELSE SubSeq(s, 1, Len(s) - 1)
       ELSE s
  ELSE s

AtobData(s) == StripPad(StripSpace(s))

\* a mutant of AtobThrows: characters outside the alphabet are let through
AtobThrowsLenient(s) == Len(AtobData(s)) % 4 = 1

\* atob throws InvalidCharacterError
AtobThrows(s) ==
  \/ Len(AtobData(s)) % 4 = 1
  \/ \E i \in 1..Len(AtobData(s)) : AtobData(s)[i] \notin Alphabet

\* the bytes of a run of alphabet characters: 4 characters give 3 bytes, a
\* rest of 3 gives 2 (2 bits dropped), a rest of 2 gives 1 (4 bits dropped)
RECURSIVE DecodeSextets(_)
DecodeSextets(d) ==
  IF Len(d) >= 4
  THEN << d[1] * 4 + d[2] \div 16,
          (d[2] % 16) * 16 + d[3] \div 4,
          (d[3] % 4) * 64 + d[4] >> \o DecodeSextets(SubSeq(d, 5, Len(d)))
  ELSE IF Len(d) = 3
  THEN << d[1] * 4 + d[2] \div 16, (d[2] % 16) * 16 + d[3] \div 4 >>
  ELSE IF Len(d) = 2
  THEN << d[1] * 4 + d[2] \div 16 >>
  ELSE <<>>

\* atob(base64), then Uint8Array.from(binary, c => c.charCodeAt(0))
Atob(s) == DecodeSextets(AtobData(s))

\* a mutant of Int16ArrayThrows: the view is cut to whole elements
Int16ArrayTruncates(bytes) == FALSE

\* new Int16Array(bytes.buffer) throws RangeError on an odd byte length
Int16ArrayThrows(bytes) == Len(bytes) % 2 # 0

\* a mutant of ToInt16: the high byte first
ToInt16BigEndian(lo, hi) ==
  IF hi + 256 * lo >= 32768 THEN hi + 256 * lo - 65536 ELSE hi + 256 * lo

\* the signed 16-bit value of a byte pair, low byte first
ToInt16(lo, hi) ==
  IF lo + 256 * hi >= 32768 THEN lo + 256 * hi - 65536 ELSE lo + 256 * hi

\* a mutant of Int16Array: one element per byte
Int16ArrayPerByte(bytes) == [i \in 1..Len(bytes) |-> bytes[i]]

\* new Int16Array(bytes.buffer): a view of the bytes, two per element,
\* low byte first
Int16Array(bytes) ==
  [i \in 1..(Len(bytes) \div 2) |-> ToInt16(bytes[2 * i - 1], bytes[2 * i])]

(***************************************************************************)
(* Numbers.  A binary floating-point value is m * 2^e, kept reduced (m odd, *)
(* or m = 0 and e = 0), so that two values are equal exactly when their     *)
(* records are.                                                             *)
(***************************************************************************)
RECURSIVE Pow2(_)
Pow2(k) == IF k = 0 THEN 1 ELSE 2 * Pow2(k - 1)

RECURSIVE Dyadic(_, _)
Dyadic(m, e) ==
  IF m = 0 THEN [m |-> 0, e |-> 0]
  ELSE IF m % 2 = 0 THEN Dyadic(m \div 2, e + 1)
  ELSE [m |-> m, e |-> e]

Abs(n) == IF n < 0 THEN 0 - n ELSE n

RECURSIVE BitLength(_)
BitLength(n) == IF n = 0 THEN 0 ELSE 1 + BitLength(n \div 2)

\* the store into a Float32Array element: 24 significant bits, ties to even
Fround(d) ==
  IF BitLength(Abs(d.m)) <= 24 THEN d
  ELSE LET k == BitLength(Abs(d.m)) - 24
           q == Abs(d.m) \div Pow2(k)
           r == Abs(d.m) % Pow2(k)
           up == r > Pow2(k - 1) \/ (r = Pow2(k - 1) /\ q % 2 = 1)
           mag == IF up THEN q + 1 ELSE q
       IN  Dyadic(IF d.m < 0 THEN 0 - mag ELSE mag, d.e + k)

\* a mutant of Normalize: the division is by 16384
NormalizeHalfScale(x) == Fround(Dyadic(x, 0 - (BitLength(Scale) - 2)))

\* normalizedData[i] = dataInt16[i] / 32768.0: the division by 2^15 is exact
\* in a double, the store rounds it to a float
Normalize(x) == Fround(Dyadic(x, 0 - (BitLength(Scale) - 1)))

NormalizedData(dataInt16) ==
  [i \in 1..Len(dataInt16) |-> Normalize(dataInt16[i])]

(***************************************************************************)
(* The voice-synthesis provider's side of a payload: base64 of the         *)
(* little-endian bytes of 16-bit samples (spec section 6).                  *)
(***************************************************************************)
LowByte(x) == (IF x < 0 THEN x + 65536 ELSE x) % 256
HighByte(x) == (IF x < 0 THEN x + 65536 ELSE x) \div 256

RECURSIVE BytesOfSamples(_)
BytesOfSamples(xs) ==
  IF xs = <<>> THEN <<>>
  ELSE <<LowByte(Head(xs)), HighByte(Head(xs))>> \o BytesOfSamples(Tail(xs))

RECURSIVE Btoa(_)
Btoa(b) ==
  IF Len(b) >= 3
  THEN << b[1] \div 4,
          (b[1] % 4) * 16 + b[2] \div 16,
          (b[2] % 16) * 4 + b[3] \div 64,
          b[3] % 64 >> \o Btoa(SubSeq(b, 4, Len(b)))
  ELSE IF Len(b) = 2
  THEN << b[1] \div 4, (b[1] % 4) * 16 + b[2] \div 16, (b[2] % 16) * 4, PadChar >>
  ELSE IF Len(b) = 1
  THEN << b[1] \div 4, (b[1] % 4) * 16, PadChar, PadChar >>
  ELSE <<>>

(***************************************************************************)
(* State.                                                                   *)
(***************************************************************************)
VARIABLES
  status,             \* useState<AppStatus>
  problem,            \* useState<CodingProblem | null>: 0 is null
  code,               \* useState('')
  result,             \* useState<EvaluationResult | null>
  isVoiceEnabled,     \* useState(true)
  chatMessage,        \* useState('')
  isAssistantLoading, \* useState(false)
  stats,              \* useState<UserStats>
  store,              \* localStorage['codesensei_stats']
  audioContextRef,    \* useRef<AudioContext | null>: 0 is null
  sources,            \* the buffer sources started on the PlaybackSink, in order
  effects,            \* the passive effects React has still to run, in order
  tasks,              \* the handler invocations suspended at an await, each
                      \* with the provider calls it has outstanding
  nextProblem,        \* the problems the ChallengeProvider has generated
  invocations,        \* the handler invocations that reached an await
  lastCall,           \* history: the latest playVoice call
  ctxCreated,         \* history: the AudioContexts constructed
  loads,              \* history: reads of the store
  chosen              \* history: what a run was given at its start (the
                      \* samples of DecodeSpec, the stored item of Spec)

appVars == <<status, problem, code, result, chatMessage, isAssistantLoading,
             stats, store, effects, tasks, nextProblem, invocations, loads>>
playVars == <<isVoiceEnabled, audioContextRef, sources, lastCall, ctxCreated>>
vars == <<appVars, playVars, chosen>>

(***************************************************************************)
(* playVoice (src/types.ts:93-122).  The body has no await: it runs to its *)
(* end inside the call, and the promise it returns is resolved, or         *)
(* rejected with what the body threw.                                       *)
(***************************************************************************)
Failures == {"contextError", "decodeError", "rangeError", "notSupported"}

\* a mutant of CreateBuffer: the samples are written last to first
CreateBufferReversed(dataInt16) ==
  [numberOfChannels |-> 1,
   length |-> Len(dataInt16),
   sampleRate |-> SampleRate,
   channelData |-> [i \in 1..Len(dataInt16) |->
                      Normalize(dataInt16[Len(dataInt16) + 1 - i])]]

\* ctx.createBuffer(1, dataInt16.length, 24000) with channelData.set(normalizedData)
CreateBuffer(dataInt16) ==
  [numberOfChannels |-> 1,
   length |-> Len(dataInt16),
   sampleRate |-> SampleRate,
   channelData |-> NormalizedData(dataInt16)]

\* a mutant of PlayVoiceSkips: the payload is not looked at
PlayVoiceSkipsDisabledOnly(enabled, base64) == ~enabled

\* the guard of line 94
PlayVoiceSkips(enabled, base64) == ~enabled \/ Falsy(base64)

\* a mutant of PlayVoiceNeedsContext: a context per call
PlayVoiceAlwaysNewContext(ref) == TRUE

\* lines 96-98: the context is made when the ref holds none
PlayVoiceNeedsContext(ref) == ref = 0

\* a mutant of PlayVoice: the ref is assigned although the constructor threw
PlayVoiceKeepsFailedContext(enabled, base64, ref, canCreate, fresh) ==
  IF PlayVoiceSkips(enabled, base64)
  THEN [outcome |-> "noop", ref |-> ref, created |-> 0, started |-> <<>>]
  ELSE IF PlayVoiceNeedsContext(ref) /\ ~canCreate
  THEN [outcome |-> "contextError", ref |-> fresh, created |-> 1, started |-> <<>>]
  ELSE LET made == IF PlayVoiceNeedsContext(ref) THEN 1 ELSE 0
           ctx == IF PlayVoiceNeedsContext(ref) THEN fresh ELSE ref
       IN  IF AtobThrows(base64.chars)
           THEN [outcome |-> "decodeError", ref |-> ctx, created |-> made,
                 started |-> <<>>]
           ELSE IF Int16ArrayThrows(Atob(base64.chars))
           THEN [outcome |-> "rangeError", ref |-> ctx, created |-> made,
                 started |-> <<>>]
           ELSE IF Len(Int16Array(Atob(base64.chars))) = 0
           THEN [outcome |-> "notSupported", ref |-> ctx, created |-> made,
                 started |-> <<>>]
           ELSE [outcome |-> "played", ref |-> ctx, created |-> made,
                 started |-> << [ctx |-> ctx,
                                 buffer |-> CreateBuffer(Int16Array(Atob(base64.chars)))] >>]

\* the outcome of one call: what it threw ("played" and "noop": nothing),
\* the ref after it, whether it constructed a context (`fresh`), and the
\* sources it started
PlayVoice(enabled, base64, ref, canCreate, fresh) ==
  IF PlayVoiceSkips(enabled, base64)
  THEN [outcome |-> "noop", ref |-> ref, created |-> 0, started |-> <<>>]
  ELSE IF PlayVoiceNeedsContext(ref) /\ ~canCreate
  THEN [outcome |-> "contextError", ref |-> ref, created |-> 0, started |-> <<>>]
  ELSE LET made == IF PlayVoiceNeedsContext(ref) THEN 1 ELSE 0
           ctx == IF PlayVoiceNeedsContext(ref) THEN fresh ELSE ref
       IN  IF AtobThrows(base64.chars)
           THEN [outcome |-> "decodeError", ref |-> ctx, created |-> made,
                 started |-> <<>>]
           ELSE IF Int16ArrayThrows(Atob(base64.chars))
           THEN [outcome |-> "rangeError", ref |-> ctx, created |-> made,
                 started |-> <<>>]
           ELSE IF Len(Int16Array(Atob(base64.chars))) = 0
           THEN [outcome |-> "notSupported", ref |-> ctx, created |-> made,
                 started |-> <<>>]
           ELSE [outcome |-> "played", ref |-> ctx, created |-> made,
                 started |-> << [ctx |-> ctx,
                                 buffer |-> CreateBuffer(Int16Array(Atob(base64.chars)))] >>]

\* generateSenseiVoice's return: response...inlineData?.data || ''
GenerateSenseiVoice(data) == IF Falsy(data) THEN Str(<<>>) ELSE data

NoCall == [made |-> FALSE]

\* history: how the call before this one ended
PrevOutcome == IF lastCall.made THEN lastCall.outcome ELSE "none"

\* a mutant of CallPlayVoice: the source started replaces those playing
CallPlayVoiceReplacing(caller, enabled, data, base64, canCreate, path) ==
  LET r == PlayVoice(enabled, base64, audioContextRef, canCreate, ctxCreated + 1)
  IN  /\ Len(sources) + Len(r.started) <= MaxSources
      /\ ctxCreated + r.created <= MaxContexts
      /\ audioContextRef' = r.ref
      /\ ctxCreated' = ctxCreated + r.created
      /\ sources' = IF r.started = <<>> THEN sources ELSE r.started
      /\ lastCall' = [made |-> TRUE, caller |-> caller, data |-> data,
                      payload |-> base64, enabled |-> enabled,
                      canCreate |-> canCreate, refBefore |-> audioContextRef,
                      before |-> sources, outcome |-> r.outcome, path |-> path,
                      prev |-> PrevOutcome]

\* one call of playVoice by `caller`, with the state it leaves; `data` is what
\* the synthesis response carried when base64 came through generateSenseiVoice
CallPlayVoice(caller, enabled, data, base64, canCreate, path) ==
  LET r == PlayVoice(enabled, base64, audioContextRef, canCreate, ctxCreated + 1)
  IN  /\ Len(sources) + Len(r.started) <= MaxSources
      /\ ctxCreated + r.created <= MaxContexts
      /\ audioContextRef' = r.ref
      /\ ctxCreated' = ctxCreated + r.created
      /\ sources' = sources \o r.started
      /\ lastCall' = IF caller \in {"submit", "ask"}
                     THEN [made |-> TRUE, caller |-> caller, outcome |-> r.outcome,
                           path |-> path]
                     ELSE [made |-> TRUE, caller |-> caller, data |-> data,
                           payload |-> base64,
                           enabled |-> enabled, canCreate |-> canCreate,
                           refBefore |-> audioContextRef, before |-> sources,
                           outcome |-> r.outcome, path |-> path,
                           prev |-> PrevOutcome]

(***************************************************************************)
(* The App after construction (src/types.ts:69-90): the state of the       *)
(* useState and useRef calls, and the two effects of the first commit.     *)
(***************************************************************************)
DefaultStats == [xp |-> 0, rank |-> "Novice", solvedCount |-> 0, streak |-> 0]

\* JSON.stringify(stats) and JSON.parse(saved): the text is the values in
\* key order; NoItem is what getItem returns for a key never set (null)
Stringify(s) == <<"xp", s.xp, "rank", s.rank, "solvedCount", s.solvedCount,
                  "streak", s.streak>>
Parse(text) == [xp |-> text[2], rank |-> text[4], solvedCount |-> text[6],
                streak |-> text[8]]
NoItem == <<>>

LoadEffect == [kind |-> "load", stats |-> DefaultStats]
SaveEffect(s) == [kind |-> "save", stats |-> s]

NoResult == [present |-> FALSE]
NoInput == [samples |-> <<>>, extra |-> <<>>]

InitPlayback ==
  /\ isVoiceEnabled = TRUE
  /\ audioContextRef = 0
  /\ sources = <<>>
  /\ lastCall = NoCall
  /\ ctxCreated = 0

InitState ==
  /\ status = "IDLE"
  /\ problem = 0
  /\ code = <<>>
  /\ result = NoResult
  /\ chatMessage = <<>>
  /\ isAssistantLoading = FALSE
  /\ stats = DefaultStats
  /\ tasks = EmptyBag
  /\ nextProblem = 0
  /\ invocations = 0
  /\ loads = 0

(***************************************************************************)
(* PlaySpec: playVoice alone, called with any payload, the voice switch    *)
(* in either position and the AudioContext constructor working or not.     *)
(***************************************************************************)
OneSample == Str(Btoa(BytesOfSamples(<<16384>>)))
TwoSamples == Str(Btoa(BytesOfSamples(<<32767, -32768>>)))
ThreeBytes == Str(Btoa(<<1, 2, 3>>))
Malformed == Str(<<16, BangChar, 16, 16>>)
Blank == Str(<<SpaceChar>>)

PlayInputs == {Undefined, Str(<<>>), OneSample, TwoSamples, ThreeBytes,
               Malformed, Blank}

PlayInit ==
  /\ InitState
  /\ InitPlayback
  /\ store = NoItem
  /\ effects = <<>>
  /\ chosen = NoInput

DirectPlay ==
  \E base64 \in PlayInputs, canCreate \in BOOLEAN :
    /\ CallPlayVoice("direct", isVoiceEnabled, base64, base64, canCreate, "normal")
    /\ UNCHANGED <<isVoiceEnabled, appVars, chosen>>

\* the synthesis response's data, through generateSenseiVoice, to playVoice
SynthesisPlay ==
  \E data \in PlayInputs, canCreate \in BOOLEAN :
    /\ CallPlayVoice("synthesis", isVoiceEnabled, data, GenerateSenseiVoice(data),
                     canCreate, "normal")
    /\ UNCHANGED <<isVoiceEnabled, appVars, chosen>>

\* toggleVoice (src/types.ts:209-211)
ToggleVoice ==
  /\ effects = <<>>
  /\ isVoiceEnabled' = ~isVoiceEnabled
  /\ UNCHANGED <<audioContextRef, sources, lastCall, ctxCreated, appVars, chosen>>

PlayNext == DirectPlay \/ SynthesisPlay \/ ToggleVoice

PlaySpec == PlayInit /\ [][PlayNext]_vars

(***************************************************************************)
(* DecodeSpec: one call of playVoice on a payload the provider encoded     *)
(* from the samples (and the odd byte) chosen at the start.                *)
(***************************************************************************)
SampleValues == {0, 1, -1, 255, 256, 16384, -16384, 32767, -32768}
ExtraBytes == {<<>>, <<0>>, <<255>>}
SpecVector == <<0, 16384, -16384, 32767, -32768>>

RECURSIVE SeqsUpTo(_, _)
SeqsUpTo(S, n) ==
  IF n = 0 THEN {<<>>}
  ELSE SeqsUpTo(S, n - 1) \cup
       {<<x>> \o s : x \in S, s \in {q \in SeqsUpTo(S, n - 1) : Len(q) = n - 1}}

DecodeInputs ==
  {[samples |-> xs, extra |-> e] : xs \in SeqsUpTo(SampleValues, MaxSamples),
                                    e \in ExtraBytes}
    \cup {[samples |-> SpecVector, extra |-> <<>>]}

ChosenBytes == BytesOfSamples(chosen.samples) \o chosen.extra

DecodeInit ==
  /\ InitState
  /\ InitPlayback
  /\ store = NoItem
  /\ effects = <<>>
  /\ chosen \in DecodeInputs

DecodeOnce ==
  /\ ~lastCall.made
  /\ CallPlayVoice("direct", isVoiceEnabled, Str(Btoa(ChosenBytes)),
                   Str(Btoa(ChosenBytes)), TRUE, "normal")
  /\ UNCHANGED <<isVoiceEnabled, appVars, chosen>>

DecodeNext == DecodeOnce

DecodeSpec == DecodeInit /\ [][DecodeNext]_vars

(***************************************************************************)
(* Spec: the App.  React runs the passive effects of a commit before the   *)
(* next event is handled, so every handler waits for `effects` to empty.   *)
(* A handler sees the state of the render it was created in, which is the  *)
(* state at the moment of the event; what it reads after an await is what  *)
(* it captured then.                                                        *)
(***************************************************************************)
RECURSIVE TrimStart(_)
TrimStart(s) ==
  IF s # <<>> /\ Head(s) = SpaceChar THEN TrimStart(Tail(s)) ELSE s

RECURSIVE TrimEnd(_)
TrimEnd(s) ==
  IF s # <<>> /\ s[Len(s)] = SpaceChar THEN TrimEnd(SubSeq(s, 1, Len(s) - 1)) ELSE s

\* String.prototype.trim
Trim(s) == TrimEnd(TrimStart(s))

\* the text set by startNewContest (either language's is not blank)
DefaultCode == <<0, SpaceChar, 0>>
CodeValues == {<<SpaceChar>>, DefaultCode}
ChatValues == {<<SpaceChar>>, <<0>>}

\* the records a previous session may have left in the store
SavedStats == {[xp |-> 100, rank |-> "Novice", solvedCount |-> 1, streak |-> 1]}
SavedStores == {NoItem} \cup {Stringify(s) : s \in SavedStats}

\* what the synthesis response may carry
VoiceResponses == {Undefined, OneSample, Malformed}

NoEval == [present |-> FALSE, isCorrect |-> FALSE, problem |-> 0,
           feedback |-> "none"]

Init ==
  /\ InitState
  /\ InitPlayback
  /\ store \in SavedStores
  /\ effects = <<LoadEffect, SaveEffect(DefaultStats)>>
  /\ chosen = [saved |-> store]

\* the first effect (lines 83-86), run once: its dependency list is empty
RunLoadEffect ==
  /\ effects # <<>>
  /\ Head(effects).kind = "load"
  /\ loads' = loads + 1
  /\ IF store # NoItem
     THEN /\ stats' = Parse(store)
          /\ effects' = Tail(effects) \o <<SaveEffect(Parse(store))>>
     ELSE /\ stats' = stats
          /\ effects' = Tail(effects)
  /\ UNCHANGED <<status, problem, code, result, chatMessage, isAssistantLoading,
                 store, tasks, nextProblem, invocations, playVars, chosen>>

\* the second effect (lines 88-90), run after every commit that changed stats,
\* with the stats of that render
RunSaveEffect ==
  /\ effects # <<>>
  /\ Head(effects).kind = "save"
  /\ store' = Stringify(Head(effects).stats)
  /\ effects' = Tail(effects)
  /\ UNCHANGED <<status, problem, code, result, chatMessage, isAssistantLoading,
                 stats, tasks, nextProblem, invocations, loads, playVars, chosen>>

\* a mutant of SetStats: the [stats] effect does not run again
SetStatsNoEffect(next) ==
  /\ stats' = next
  /\ effects' = effects

\* setStats(next): the commit queues the [stats] effect
SetStats(next) ==
  /\ stats' = next
  /\ effects' = effects \o <<SaveEffect(next)>>

\* an invocation suspended at an await: the calls it waits for, and what
\* its closure holds of the render it was created in
Task(kind, calls, capturedProblem, capturedVoice) ==
  [kind |-> kind, calls |-> calls, problem |-> capturedProblem,
   voiceEnabled |-> capturedVoice, eval |-> NoEval, text |-> "none"]

\* the invocations in flight are a bag: no handler reads another's position
Started(t) == tasks (+) SetToBag({t})
Finished(t) == tasks (-) SetToBag({t})
Resumed(t, u) == (tasks (-) SetToBag({t})) (+) SetToBag({u})
InFlight == BagToSet(tasks)

Ready == effects = <<>>
CanStart == invocations < MaxInvocations

EditorShown == status \notin {"IDLE", "GENERATING"}
ResultShown == status = "RESULT_READY" /\ result.present
AssistantShown == EditorShown /\ ~ResultShown

\* startNewContest up to its await (lines 124-127)
StartNewContest ==
  /\ Ready /\ CanStart
  /\ status' = "GENERATING"
  /\ tasks' = Started(Task("contest", {"challenge"}, 0, FALSE))
  /\ invocations' = invocations + 1
  /\ UNCHANGED <<problem, code, result, chatMessage, isAssistantLoading, stats,
                 store, effects, nextProblem, loads, playVars, chosen>>

\* generateProblem returns or throws (lines 128-139)
ChallengeReturns ==
  \E t \in InFlight, ok \in BOOLEAN :
    /\ Ready
    /\ t.kind = "contest" /\ "challenge" \in t.calls
    /\ tasks' = Finished(t)
    /\ IF ok
       THEN /\ problem' = nextProblem + 1
            /\ nextProblem' = nextProblem + 1
            /\ code' = DefaultCode
            /\ status' = "CONTEST_READY"
            /\ result' = NoResult
       ELSE /\ status' = "IDLE"
            /\ UNCHANGED <<problem, nextProblem, code, result>>
    /\ UNCHANGED <<chatMessage, isAssistantLoading, stats, store, effects,
                   invocations, loads, playVars, chosen>>

\* a mutant of SubmitIssues: both requests at once
SubmitIssuesBoth == {"judge", "voice"}

\* the calls submitSolution issues before its first await (line 163)
SubmitIssues == {"judge"}

\* submitSolution up to its first await (lines 159-163); the button is
\* disabled while JUDGING (line 389)
SubmitSolution ==
  /\ Ready /\ CanStart
  /\ EditorShown /\ status # "JUDGING"
  /\ IF problem = 0 \/ Trim(code) = <<>>
     THEN UNCHANGED <<status, tasks, invocations>>
     ELSE /\ status' = "JUDGING"
          /\ tasks' = Started(Task("submit", SubmitIssues, problem, isVoiceEnabled))
          /\ invocations' = invocations + 1
  /\ UNCHANGED <<problem, code, result, chatMessage, isAssistantLoading, stats,
                 store, effects, nextProblem, loads, playVars, chosen>>

\* what the JudgeProvider may answer: it throws, or isCorrect is either
JudgeResponses == {"throw", "correct", "incorrect"}

\* a mutant of VoiceRequestText: the request carries no feedback
VoiceRequestTextNone(evalResult) == "none"

\* the argument of line 167: generateSenseiVoice(evalResult.feedback)
VoiceRequestText(evalResult) == evalResult.feedback

\* a mutant of SubmitCatchStatus: the catch leaves the status
SubmitCatchKeepsStatus(current) == current

\* the catch of submitSolution (lines 179-181)
SubmitCatchStatus(current) == "CONTEST_READY"

\* the continuation of invocation t when evaluateSolution answers resp
\* (lines 163-167, 179-181); the feedback text is that of the answer
JudgeStep(t, resp) ==
  /\ Ready
  /\ t.kind = "submit" /\ "judge" \in t.calls
  /\ IF resp # "throw"
     THEN LET evalResult == [present |-> TRUE, isCorrect |-> resp = "correct",
                             problem |-> t.problem, feedback |-> resp]
          IN  /\ result' = evalResult
              /\ status' = "RESULT_READY"
              /\ tasks' = Resumed(t, [t EXCEPT !.eval = evalResult,
                                               !.calls = (@ \ {"judge"}) \cup {"voice"},
                                               !.text = VoiceRequestText(evalResult)])
     ELSE /\ status' = SubmitCatchStatus(status)
          /\ tasks' = Finished(t)
          /\ UNCHANGED result
  /\ UNCHANGED <<problem, code, chatMessage, isAssistantLoading, stats, store,
                 effects, nextProblem, invocations, loads, playVars, chosen>>

\* evaluateSolution returns or throws
JudgeReturns ==
  \E t \in InFlight, resp \in JudgeResponses : JudgeStep(t, resp)

\* lines 153 and 168 call playVoice without await: the promise is dropped,
\* and a rejection of it is not thrown into the caller
PlayVoiceAwaited == FALSE

ThrownInCaller(outcome) == PlayVoiceAwaited /\ outcome \in Failures

\* a mutant of Award: the rank is taken from the xp after the award
AwardRankFromNewXp(prev) ==
  [xp |-> prev.xp + 100,
   rank |-> IF prev.xp + 100 > 500 THEN "Architect"
            ELSE IF prev.xp + 100 > 200 THEN "Engineer" ELSE "Novice",
   solvedCount |-> prev.solvedCount + 1,
   streak |-> prev.streak + 1]

\* lines 170-178
Award(prev) ==
  [xp |-> prev.xp + 100,
   rank |-> IF prev.xp > 500 THEN "Architect"
            ELSE IF prev.xp > 200 THEN "Engineer" ELSE "Novice",
   solvedCount |-> prev.solvedCount + 1,
   streak |-> prev.streak + 1]

\* what the VoiceSynthesisProvider may answer: it throws, or the response
\* carries one of VoiceResponses
VoiceAnswers == {[throws |-> TRUE, data |-> Undefined]}
                  \cup {[throws |-> FALSE, data |-> d] : d \in VoiceResponses}

\* whether new AudioContext() works matters to a call only while the ref is null
ContextChoices == IF audioContextRef = 0 THEN BOOLEAN ELSE {TRUE}

\* the continuation of invocation t when generateSenseiVoice answers resp
\* (lines 167-181)
SubmitVoiceStep(t, resp, canCreate) ==
  /\ Ready
  /\ t.kind = "submit" /\ "voice" \in t.calls
  /\ tasks' = Finished(t)
  /\ IF ~resp.throws
     THEN LET voice == GenerateSenseiVoice(resp.data)
              thrown == ThrownInCaller(
                          PlayVoice(t.voiceEnabled, voice, audioContextRef,
                                    canCreate, ctxCreated + 1).outcome)
          IN  /\ CallPlayVoice("submit", t.voiceEnabled, resp.data, voice, canCreate,
                               IF thrown THEN "catch" ELSE "normal")
              /\ IF thrown
                 THEN /\ status' = SubmitCatchStatus(status)
                      /\ UNCHANGED <<stats, effects>>
                 ELSE /\ status' = status
                      /\ IF t.eval.isCorrect
                         THEN SetStats(Award(stats))
                         ELSE UNCHANGED <<stats, effects>>
     ELSE /\ status' = SubmitCatchStatus(status)
          /\ UNCHANGED <<stats, effects, audioContextRef, sources, lastCall,
                         ctxCreated>>
  /\ UNCHANGED <<problem, code, result, chatMessage, isAssistantLoading, store,
                 nextProblem, invocations, loads, isVoiceEnabled, chosen>>

\* generateSenseiVoice returns or throws in submitSolution; whether the
\* constructor would work is asked only of an answer that reaches playVoice
SubmitVoiceReturns ==
  \E t \in InFlight, resp \in VoiceAnswers, canCreate \in ContextChoices :
    /\ resp.throws => canCreate
    /\ SubmitVoiceStep(t, resp, canCreate)

\* handleAssistantAsk up to its first await (lines 142-150)
HandleAssistantAsk ==
  /\ Ready /\ CanStart
  /\ AssistantShown
  /\ IF Trim(chatMessage) = <<>> \/ problem = 0
     THEN UNCHANGED <<chatMessage, isAssistantLoading, tasks, invocations>>
     ELSE /\ chatMessage' = <<>>
          /\ isAssistantLoading' = TRUE
          /\ tasks' = Started(Task("ask", {"hint"}, 0, isVoiceEnabled))
          /\ invocations' = invocations + 1
  /\ UNCHANGED <<status, problem, code, result, stats, store, effects,
                 nextProblem, loads, playVars, chosen>>

\* askSenseiHint returns or throws (lines 150-156)
HintReturns ==
  \E t \in InFlight, ok \in BOOLEAN :
    /\ Ready
    /\ t.kind = "ask" /\ "hint" \in t.calls
    /\ IF ok
       THEN /\ tasks' = Resumed(t, [t EXCEPT !.calls = (@ \ {"hint"}) \cup {"voice"}])
            /\ UNCHANGED isAssistantLoading
       ELSE /\ tasks' = Finished(t)
            /\ isAssistantLoading' = FALSE
    /\ UNCHANGED <<status, problem, code, result, chatMessage, stats, store,
                   effects, nextProblem, invocations, loads, playVars, chosen>>

\* generateSenseiVoice returns or throws in handleAssistantAsk (lines 152-156)
AskVoiceReturns ==
  \E t \in InFlight, resp \in VoiceAnswers, canCreate \in ContextChoices :
    /\ Ready
    /\ t.kind = "ask" /\ "voice" \in t.calls
    /\ tasks' = Finished(t)
    /\ isAssistantLoading' = FALSE
    /\ IF ~resp.throws
       THEN LET voice == GenerateSenseiVoice(resp.data)
                thrown == ThrownInCaller(
                            PlayVoice(t.voiceEnabled, voice, audioContextRef,
                                      canCreate, ctxCreated + 1).outcome)
            IN  CallPlayVoice("ask", t.voiceEnabled, resp.data, voice, canCreate,
                              IF thrown THEN "finally" ELSE "normal")
       ELSE /\ canCreate
            /\ UNCHANGED <<audioContextRef, sources, lastCall, ctxCreated>>
    /\ UNCHANGED <<status, problem, code, result, chatMessage, stats, store,
                   effects, nextProblem, invocations, loads, isVoiceEnabled, chosen>>

\* handleCodeChange (lines 195-197)
HandleCodeChange ==
  \E v \in CodeValues :
    /\ Ready /\ EditorShown
    /\ code' = v
    /\ UNCHANGED <<status, problem, result, chatMessage, isAssistantLoading, stats,
                   store, effects, tasks, nextProblem, invocations, loads, playVars, chosen>>

\* handleChatMessageChange (lines 199-201)
HandleChatMessageChange ==
  \E v \in ChatValues :
    /\ Ready /\ AssistantShown
    /\ chatMessage' = v
    /\ UNCHANGED <<status, problem, code, result, isAssistantLoading, stats,
                   store, effects, tasks, nextProblem, invocations, loads, playVars, chosen>>

\* returnToAssistant (lines 213-215), the button of the result pane
ReturnToAssistant ==
  /\ Ready /\ ResultShown
  /\ status' = "CONTEST_READY"
  /\ UNCHANGED <<problem, code, result, chatMessage, isAssistantLoading, stats,
                 store, effects, tasks, nextProblem, invocations, loads, playVars, chosen>>

Next ==
  \/ RunLoadEffect
  \/ RunSaveEffect
  \/ StartNewContest
  \/ ChallengeReturns
  \/ SubmitSolution
  \/ JudgeReturns
  \/ SubmitVoiceReturns
  \/ HandleAssistantAsk
  \/ HintReturns
  \/ AskVoiceReturns
  \/ HandleCodeChange
  \/ HandleChatMessageChange
  \/ ReturnToAssistant
  \/ ToggleVoice

Spec == Init /\ [][Next]_vars

(***************************************************************************)
(* StatsSpec: the App used for contests and submissions only, started on   *)
(* the records earlier sessions can have left at the rank thresholds.      *)
(***************************************************************************)
StatsSaved ==
  {[xp |-> 200, rank |-> "Novice", solvedCount |-> 2, streak |-> 2],
   [xp |-> 500, rank |-> "Engineer", solvedCount |-> 5, streak |-> 5]}
StatsStores == {NoItem} \cup {Stringify(s) : s \in StatsSaved}

StatsInit ==
  /\ InitState
  /\ InitPlayback
  /\ store \in StatsStores
  /\ effects = <<LoadEffect, SaveEffect(DefaultStats)>>
  /\ chosen = [saved |-> store]

StatsNext ==
  \/ RunLoadEffect
  \/ RunSaveEffect
  \/ StartNewContest
  \/ ChallengeReturns
  \/ SubmitSolution
  \/ JudgeReturns
  \/ SubmitVoiceReturns
  \/ HandleCodeChange

StatsSpec == StatsInit /\ [][StatsNext]_vars

(***************************************************************************)
(* Properties.                                                              *)
(***************************************************************************)
\* a payload holding a character that base64 never allows (such as '!')
Malformed64(p) ==
  /\ ~Falsy(p)
  /\ \E i \in 1..Len(p.chars) : p.chars[i] \notin Alphabet \cup {PadChar, SpaceChar}
ContextAvailable == lastCall.refBefore # 0 \/ lastCall.canCreate
DecodedBytes == Atob(lastCall.payload.chars)
Direct == lastCall.made /\ lastCall.caller \in {"direct", "synthesis"}

\* C1, as stated: a malformed base64 payload passed to playVoice raises a
\* decode error, and the call creates no buffer and starts no source (the
\* AudioContext constructor working, so that no other error comes first).
C1_MalformedAlwaysRaises ==
  Direct /\ Malformed64(lastCall.payload) /\ ContextAvailable
    => lastCall.outcome = "decodeError" /\ sources = lastCall.before

\* C1, amended: a malformed base64 payload raises a decode error when the call
\* is made with voice enabled and a playback context exists or can be made;
\* with voice disabled the call returns without an error, and without a
\* context it raises the constructor's error.  In every case the call creates
\* no buffer and starts no source.
C1_MalformedRaises ==
  Direct /\ Malformed64(lastCall.payload)
    => /\ sources = lastCall.before
       /\ lastCall.enabled /\ ContextAvailable => lastCall.outcome = "decodeError"
       /\ ~lastCall.enabled => lastCall.outcome = "noop"
       /\ lastCall.enabled /\ ~ContextAvailable => lastCall.outcome = "contextError"

C1_Witness ==
  /\ Direct /\ lastCall.payload = Malformed
  /\ lastCall.outcome = "decodeError"
  /\ lastCall.before # <<>>

OddBytes ==
  /\ Direct /\ lastCall.enabled /\ ContextAvailable
  /\ ~Falsy(lastCall.payload) /\ ~AtobThrows(lastCall.payload.chars)
  /\ Len(DecodedBytes) % 2 = 1

C3_FailurePropagates ==
  lastCall.made /\ lastCall.caller \in {"submit", "ask"}
                /\ lastCall.outcome \in Failures
    => lastCall.path # "normal"

\* C4: an empty or absent payload, also the '' generateSenseiVoice returns for
\* a response without audio data, makes playVoice a no-op: no error, no
\* buffer, no source, and the context ref as it was.
C4_EmptyIsNoop ==
  Direct /\ Falsy(lastCall.data)
    => /\ Falsy(lastCall.payload)
       /\ lastCall.caller = "synthesis" => lastCall.payload = Str(<<>>)
       /\ lastCall.outcome = "noop"
       /\ sources = lastCall.before
       /\ audioContextRef = lastCall.refBefore

C4_Witness ==
  /\ Direct /\ lastCall.caller = "synthesis" /\ lastCall.data = Undefined
  /\ lastCall.enabled
  /\ lastCall.outcome = "noop"
  /\ audioContextRef = 0

\* C5: at most one AudioContext is ever constructed; a call that returns at
\* the guard constructs none, a call that gets past it leaves the ref set
\* (unless the constructor threw), a set ref is never replaced, and every
\* source plays on that one context.
C5_OneContext ==
  /\ ctxCreated <= 1
  /\ audioContextRef = ctxCreated
  /\ \A i \in 1..Len(sources) : sources[i].ctx = audioContextRef
  /\ Direct =>
       /\ lastCall.outcome = "noop" => audioContextRef = lastCall.refBefore
       /\ lastCall.outcome \notin {"noop", "contextError"} => audioContextRef # 0
       /\ lastCall.refBefore # 0 => audioContextRef = lastCall.refBefore

C5_Witness ==
  /\ ctxCreated = 1
  /\ Len(sources) = 2
  /\ Direct /\ lastCall.refBefore = 1 /\ lastCall.outcome = "played"

\* C6: the store is read once, at startup; whenever the effects have run the
\* store holds the in-memory stats; and a record saved before startup is, once
\* the startup effects have run, both the in-memory stats and the stored item.
C6_LoadedOnceSavedOnChange ==
  /\ loads <= 1
  /\ effects = <<>> =>
       /\ loads = 1
       /\ store = Stringify(stats)
       /\ invocations = 0 /\ chosen.saved # NoItem =>
            stats = Parse(chosen.saved) /\ store = chosen.saved

C6_Witness ==
  /\ effects = <<>>
  /\ chosen.saved # NoItem
  /\ stats = Award(Parse(chosen.saved))
  /\ store = Stringify(stats)

RECURSIVE CallsOf(_)
CallsOf(S) ==
  IF S = {} THEN 0
  ELSE LET t == CHOOSE x \in S : TRUE
       IN  CopiesIn(t, tasks) * Cardinality(t.calls) + CallsOf(S \ {t})

\* the provider calls outstanding
Outstanding == CallsOf(InFlight)

\* C7, as stated: under any sequence of user actions, no provider call is
\* issued while another provider call is outstanding.
C7_OneCallAtATime == Outstanding <= 1

\* C7, amended: within one handler invocation the provider calls are awaited
\* one after the other: an invocation has exactly one call outstanding while
\* it is suspended, and the voice call of submitSolution is issued only when
\* the judge has answered.  Invocations themselves may overlap (Reset Session
\* and the ask control are never disabled, the submit button only while
\* JUDGING), and then their calls are outstanding together.
C7_SequentialPerInvocation ==
  \A t \in InFlight :
    /\ Cardinality(t.calls) = 1
    /\ t.kind = "submit" /\ "voice" \in t.calls => t.eval.present
    /\ t.kind = "submit" /\ "judge" \in t.calls => ~t.eval.present

C7_Witness ==
  /\ Outstanding = 2
  /\ \E t \in InFlight : t.kind = "submit" /\ "voice" \in t.calls
  /\ \E t \in InFlight : t.kind = "ask"

Playable ==
  /\ lastCall.enabled /\ ContextAvailable
  /\ ~Falsy(lastCall.payload) /\ ~AtobThrows(lastCall.payload.chars)
  /\ Len(DecodedBytes) % 2 = 0 /\ Len(DecodedBytes) >= 2

\* C8, as stated: a call with a valid non-empty payload (base64 of complete
\* samples) starts exactly one new source, a no-op or failed call none, and
\* no call alters a source started earlier.
C8_ValidAlwaysPlays ==
  Direct =>
    /\ ~Falsy(lastCall.payload) /\ ~AtobThrows(lastCall.payload.chars)
         /\ Len(DecodedBytes) % 2 = 0 /\ Len(DecodedBytes) >= 2 /\ ContextAvailable
         => Len(sources) = Len(lastCall.before) + 1
    /\ SubSeq(sources, 1, Len(lastCall.before)) = lastCall.before

\* C8, amended: a call made with voice enabled, a context available and a
\* payload that is base64 of at least one complete sample and no odd byte
\* starts exactly one new source, on a buffer made in that call, before it
\* returns; every other call (voice disabled, payload empty, an error thrown)
\* starts none; and no call alters or removes a source started earlier.
C8_OnePlaybackPerCall ==
  Direct =>
    /\ SubSeq(sources, 1, Len(lastCall.before)) = lastCall.before
    /\ Playable <=> lastCall.outcome = "played"
    /\ Playable => /\ Len(sources) = Len(lastCall.before) + 1
                   /\ sources[Len(sources)].buffer.length = Len(DecodedBytes) \div 2
    /\ ~Playable => sources = lastCall.before

C8_Witness ==
  /\ Direct /\ Playable
  /\ Len(lastCall.before) = 1
  /\ Len(sources) = 2
  /\ sources[1].buffer # sources[2].buffer

Decoded == lastCall.made /\ lastCall.payload = Str(Btoa(ChosenBytes))

\* C9: a payload whose decoded byte sequence has even length decodes to half
\* as many samples as it has bytes, and the buffer played has that length.
C9_SampleCount ==
  Decoded /\ Len(ChosenBytes) % 2 = 0 =>
    /\ Len(DecodedBytes) = Len(ChosenBytes)
    /\ Len(Int16Array(DecodedBytes)) * 2 = Len(ChosenBytes)
    /\ Len(ChosenBytes) > 0 =>
         /\ lastCall.outcome = "played"
         /\ sources[1].buffer.length * 2 = Len(ChosenBytes)
         /\ Len(sources[1].buffer.channelData) * 2 = Len(ChosenBytes)

C9_Witness ==
  /\ Decoded /\ Len(ChosenBytes) = 4
  /\ lastCall.outcome = "played"
  /\ sources[1].buffer.length = 2

\* the value d as a multiple of 1/32768, when it is one
TimesScale(d) == IF d.e + 15 >= 0 THEN d.m * Pow2(d.e + 15) ELSE Scale * Scale

\* C10: decoding inverts the little-endian 16-bit encoding: the samples
\* decoded from the base64 of their byte pairs are the samples encoded, in
\* order, and the value played for sample i is exactly sample i / 32768; the
\* samples [0, 16384, -16384, 32767, -32768] play as
\* [0, 1/2, -1/2, 32767/32768, -1].
C10_RoundTrip ==
  Decoded /\ chosen.extra = <<>> /\ chosen.samples # <<>> =>
    /\ Int16Array(DecodedBytes) = chosen.samples
    /\ \A i \in 1..Len(chosen.samples) :
         chosen.samples[i] = ToInt16(DecodedBytes[2 * i - 1], DecodedBytes[2 * i])
    /\ lastCall.outcome = "played"
    /\ Len(sources[1].buffer.channelData) = Len(chosen.samples)
    /\ \A i \in 1..Len(chosen.samples) :
         TimesScale(sources[1].buffer.channelData[i]) = chosen.samples[i]
    /\ chosen.samples = SpecVector =>
         sources[1].buffer.channelData =
           << [m |-> 0, e |-> 0], [m |-> 1, e |-> -1], [m |-> -1, e |-> -1],
              [m |-> 32767, e |-> -15], [m |-> -1, e |-> 0] >>

C10_Witness ==
  /\ Decoded /\ chosen.samples = SpecVector
  /\ lastCall.outcome = "played"
  /\ Len(sources[1].buffer.channelData) = 5

\* every signed 16-bit sample normalizes to exactly s / 32768, a value of
\* [-1, 1) and never +1
NormalizeInRange ==
  \A s \in (0 - Scale)..(Scale - 1) :
    /\ TimesScale(Normalize(s)) = s
    /\ 0 - Scale <= TimesScale(Normalize(s)) /\ TimesScale(Normalize(s)) < Scale
    /\ Normalize(s) # [m |-> 1, e |-> 0]

\* C11: for every signed 16-bit sample s the normalized value is s / 32768
\* and lies in [-1, 1): -32768 gives exactly -1, 32767 gives 32767/32768, no
\* sample gives +1; and every value of a played buffer is such a value.
C11_NormalizedRange ==
  /\ NormalizeInRange
  /\ Normalize(0 - Scale) = [m |-> -1, e |-> 0]
  /\ Normalize(Scale - 1) = [m |-> 32767, e |-> -15]
  /\ \A i \in 1..Len(sources) :
       \A j \in 1..Len(sources[i].buffer.channelData) :
         LET v == TimesScale(sources[i].buffer.channelData[j])
         IN  0 - Scale <= v /\ v < Scale

C11_Witness ==
  /\ Decoded /\ chosen.samples = <<32767, -32768>> /\ chosen.extra = <<>>
  /\ lastCall.outcome = "played"
  /\ sources[1].buffer.channelData = << [m |-> 32767, e |-> -15], [m |-> -1, e |-> 0] >>

\* C12: the buffer built by a successful call has 1 channel, a sample rate
\* of 24000 Hz and a length equal to the decoded sample count, and its channel
\* holds the normalized samples in their order: channel[i] is sample i / 32768.
C12_BufferShape ==
  Decoded /\ lastCall.outcome = "played" =>
    /\ Len(sources) = 1
    /\ sources[1].buffer.numberOfChannels = 1
    /\ sources[1].buffer.sampleRate = 24000
    /\ sources[1].buffer.length = Len(chosen.samples)
    /\ Len(sources[1].buffer.channelData) = Len(chosen.samples)
    /\ \A i \in 1..Len(chosen.samples) :
         TimesScale(sources[1].buffer.channelData[i]) = chosen.samples[i]

C12_Witness ==
  /\ Decoded /\ chosen.samples = <<256, -1>> /\ chosen.extra = <<>>
  /\ lastCall.outcome = "played"
  /\ sources[1].buffer.length = 2
  /\ sources[1].buffer.channelData[1] # sources[1].buffer.channelData[2]

C14_JudgeThenVoice ==
  [][ /\ \A t \in InFlight :
           t.kind = "submit" =>
             /\ "voice" \in t.calls => t.eval.present /\ t.text = t.eval.feedback
             /\ "judge" \in t.calls => ~t.eval.present /\ t.text = "none"
      /\ \A t \in InFlight, resp \in JudgeResponses :
           JudgeStep(t, resp) /\ resp # "throw" =>
             /\ result'.present /\ result'.feedback = resp
             /\ result'.problem = t.problem
             /\ status' = "RESULT_READY"
             /\ \E u \in BagToSet(tasks') :
                  /\ u.kind = "submit" /\ u.calls = {"voice"}
                  /\ u.eval = result' /\ u.text = resp
             /\ sources' = sources /\ lastCall' = lastCall
      /\ \A t \in InFlight, resp \in VoiceAnswers, canCreate \in BOOLEAN :
           SubmitVoiceStep(t, resp, canCreate) /\ ~resp.throws =>
             /\ t.eval.present
             /\ lastCall'.made /\ lastCall'.caller = "submit"
             /\ t.voiceEnabled /\ resp.data = OneSample
                  /\ (audioContextRef # 0 \/ canCreate) =>
                  /\ lastCall'.outcome = "played"
                  /\ Len(sources') = Len(sources) + 1
                  /\ sources'[Len(sources')].buffer.channelData
                       = << [m |-> 1, e |-> -1] >>
    ]_vars

C14_Witness ==
  /\ lastCall.made /\ lastCall.caller = "submit" /\ lastCall.outcome = "played"
  /\ status = "RESULT_READY" /\ result.present /\ result.problem = problem
  /\ tasks = EmptyBag
  /\ Len(sources) = 1

\* C15: whenever status is RESULT_READY, the stored result is the evaluation
\* of the currently stored problem: an evaluation requested for an earlier
\* problem is never stored and shown once a new problem has replaced it.
C15_ResultIsForCurrentProblem ==
  status = "RESULT_READY" => result.present /\ result.problem = problem

\* C16: no playback is started while voice is disabled: a step taken while
\* isVoiceEnabled is false, also the playVoice call of an invocation that
\* began before the user switched voice off, starts no source and
\* constructs no AudioContext.
C16_NoPlaybackWhileDisabled ==
  [][ ~isVoiceEnabled =>
        /\ sources' = sources
        /\ ctxCreated' = ctxCreated
        /\ audioContextRef' = audioContextRef ]_vars

\* the stats a run started with, once the startup effects have run
StartStats == IF chosen.saved = NoItem THEN DefaultStats ELSE Parse(chosen.saved)

\* C17: when the voice-synthesis call of submitSolution fails after a
\* successful evaluation, the submission ends with status CONTEST_READY, the
\* stored result stays as it is and stats are unchanged, also for an
\* evaluation with isCorrect = true; the same when the judge call fails.
C17_FailureRollsBack ==
  [][ /\ \A t \in InFlight, resp \in VoiceAnswers, canCreate \in BOOLEAN :
           SubmitVoiceStep(t, resp, canCreate) /\ resp.throws =>
             /\ t.eval.present
             /\ status' = "CONTEST_READY"
             /\ result' = result
             /\ stats' = stats /\ effects' = effects /\ store' = store
             /\ sources' = sources
      /\ \A t \in InFlight :
           JudgeStep(t, "throw") =>
             /\ status' = "CONTEST_READY"
             /\ result' = result
             /\ stats' = stats /\ effects' = effects /\ store' = store
    ]_vars

C17_Witness ==
  /\ status = "CONTEST_READY"
  /\ result.present /\ result.isCorrect /\ result.problem = problem
  /\ tasks = EmptyBag /\ effects = <<>>
  /\ invocations = 2 /\ ~lastCall.made
  /\ stats = StartStats /\ store = Stringify(StartStats)

\* C18: submitSolution changes stats only for an evaluation with isCorrect =
\* true whose voice request returned, and then to xp + 100, solvedCount + 1,
\* streak + 1 with the rank of the xp before the award (Architect above 500,
\* Engineer above 200, else Novice); an incorrect evaluation, a submission
\* with blank code or no problem and a failed submission leave stats as they
\* are; so xp = 100 * solvedCount and streak = solvedCount always hold.
C18_AwardOnlyWhenCorrect ==
  [][ /\ \A t \in InFlight, resp \in VoiceAnswers, canCreate \in BOOLEAN :
           SubmitVoiceStep(t, resp, canCreate) =>
             IF ~resp.throws /\ t.eval.isCorrect
             THEN stats' = [xp |-> stats.xp + 100,
                            solvedCount |-> stats.solvedCount + 1,
                            streak |-> stats.streak + 1,
                            rank |-> IF stats.xp > 500 THEN "Architect"
                                     ELSE IF stats.xp > 200 THEN "Engineer"
                                     ELSE "Novice"]
             ELSE stats' = stats
      /\ \A t \in InFlight, resp \in JudgeResponses :
           JudgeStep(t, resp) => stats' = stats
      /\ SubmitSolution => stats' = stats
      /\ stats'.xp = 100 * stats'.solvedCount
      /\ stats'.streak = stats'.solvedCount
    ]_vars

C18_Witness ==
  /\ chosen.saved # NoItem /\ Parse(chosen.saved).xp = 500
  /\ stats = [xp |-> 700, rank |-> "Architect", solvedCount |-> 7, streak |-> 7]
  /\ effects = <<>> /\ store = Stringify(stats)
  /\ result.present /\ result.isCorrect

\* C19: isAssistantLoading is true exactly while an invocation of
\* handleAssistantAsk is waiting for its hint or voice call, also when
\* several asks overlap and when a provider call fails.
C19_LoadingWhileAskOutstanding ==
  isAssistantLoading <=> \E t \in InFlight : t.kind = "ask"

====
